---- MODULE Spec2Model ----
(***************************************************************************)
(* Model of the forecasting model-selection and evaluation design sketch:  *)
(* the function evaluate and the method ForecastingGridSearchCV.fit of     *)
(* steps/01_forecasting_api/forecasting-model-selection-and-evaluation.    *)
(* One run of ForecastingGridSearchCV.fit is modelled statement by         *)
(* statement, the call of evaluate inlined at its call site.               *)
(*                                                                         *)
(* The splitter cv, the forecaster, the scoring callable and clone are     *)
(* collaborators the notebook only calls.  The splitter is modelled from   *)
(* the written specification of the four split strategies; a forecaster    *)
(* is an object with its parameters and the log of the calls that          *)
(* succeeded on it, which is the most an opaque stateful object can        *)
(* depend on.                                                              *)
(***************************************************************************)
EXTENDS Integers, Sequences, FiniteSets, TLC

VARIABLES
    pc,           \* position in ForecastingGridSearchCV.fit / evaluate
    y_len,        \* len(y): the series, positions 0 .. y_len-1
    cv,           \* self.cv: the splitter's configuration
    strategy,     \* self.strategy
    param_grid,   \* self.param_grid: sequence of configurations
    heap,         \* forecaster objects by identity; 0 is self.forecaster
    best_params,  \* the selected configuration of the search
    cv_results,   \* fit: cv_results
    i,            \* fit: loop index over param_grid (1-based)
    forecaster,   \* fit/evaluate: identity of the forecaster under evaluation
    n_splits,     \* evaluate: n_splits
    scores,       \* evaluate: scores
    windows,      \* evaluate: the sequence cv.split(y) yields
    k,            \* evaluate: loop index over cv.split(y) (1-based)
    y_train,      \* evaluate: y_train (the positions it holds)
    y_test,       \* evaluate: y_test (the positions it holds)
    y_pred,       \* evaluate: y_pred
    writes,       \* history: how often each index of scores was assigned
    raised        \* the exception that left the run, "none" if none

vars == <<pc, y_len, cv, strategy, param_grid, heap, best_params, cv_results,
          i, forecaster, n_splits, scores, windows, k, y_train, y_test,
          y_pred, writes, raised>>

\* ------------------------------------------------------------------ bounds
MaxSeries == 6
MaxLen == 2
MaxGrid == 2

\* ------------------------------------------------------------- value sets
Kinds == {"blocked", "sliding", "sliding-with-initial-window", "expanding"}
Strategies == {"refit", "update"}
Unset == "unset"
NoPred == [params |-> 0, state |-> <<>>]
\* an entry of np.empty that was never assigned
UninitScore == [set |-> FALSE, y_test |-> <<>>, y_pred |-> NoPred, value |-> 0]
UninitMean == [set |-> FALSE, sum |-> 0, count |-> 0]

Range(lo, hi) == [j \in 1..(hi - lo + 1) |-> lo + j - 1]
SetOf(s) == {s[j] : j \in 1..Len(s)}
Max(S) == CHOOSE x \in S : \A z \in S : z <= x
Min(S) == CHOOSE x \in S : \A z \in S : x <= z

\* ---------------------------------------------------------------- splitter
\* Length of the first train window.
FirstLen(c) ==
    IF c.kind = "sliding-with-initial-window" THEN c.initial_window_length
    ELSE c.window_length

\* The w-th window (0-based) of the plan: <<train positions, test positions>>.
Window(c, w) ==
    LET h == c.horizon_length
        s == c.step_length
        l == FirstLen(c)
    IN  CASE c.kind = "blocked" ->
               <<Range(w * (l + h), w * (l + h) + l - 1),
                 Range(w * (l + h) + l, w * (l + h) + l + h - 1)>>
          [] c.kind = "sliding" ->
               <<Range(w * s, w * s + l - 1),
                 Range(w * s + l, w * s + l + h - 1)>>
          [] OTHER ->
               <<Range(0, l + w * s - 1),
                 Range(l + w * s, l + w * s + h - 1)>>

\* cv.split(y): windows are produced while the test window fits the series.
RECURSIVE SplitFrom(_, _, _)
SplitFrom(c, n, w) ==
    IF Max(SetOf(Window(c, w)[2])) >= n THEN <<>>
    ELSE <<Window(c, w)>> \o SplitFrom(c, n, w + 1)

Split(c, n) == SplitFrom(c, n, 0)

\* cv.get_n_splits(y): closed form from the four integer parameters.
GetNSplits(c, n) ==
    LET h == c.horizon_length
        l == FirstLen(c)
    IN  IF n < l + h THEN 0
        ELSE IF c.kind = "blocked" THEN n \div (l + h)
        ELSE (n - l - h) \div c.step_length + 1

\* ------------------------------------------------------------- forecaster
\* no copy: the template itself is handed on
CloneAlias(h, src, new) == [heap |-> h, id |-> src]

\* clone(self.forecaster): a new unfitted object with the same parameters.
Clone(h, src, new) ==
    [heap |-> (new :> [params |-> h[src].params, log |-> <<>>]) @@ h,
     id |-> new]

\* forecaster.set_params(**params)
SetParams(obj, params) == [obj EXCEPT !.params = params]

\* a fit that starts from a fresh object: nothing of earlier fits is kept
FitFresh(obj, train, fh) ==
    [obj EXCEPT !.log = <<[op |-> "fit", y |-> train, fh |-> fh]>>]

\* a fit that is skipped when the object is already fitted
FitOnce(obj, train, fh) ==
    IF obj.log # <<>> THEN obj
    ELSE [obj EXCEPT !.log = <<[op |-> "fit", y |-> train, fh |-> fh]>>]

\* forecaster.fit(y_train, fh): one more successful fit call on the object.
Fit(obj, train, fh) ==
    [obj EXCEPT !.log = Append(@, [op |-> "fit", y |-> train, fh |-> fh])]

\* forecaster.predict(): determined by the object's parameters and history.
Predict(obj) == [params |-> obj.params, state |-> obj.log]

\* scoring(y_test, y_pred): a scalar of the actual and the predicted values.
LastFit(log) ==
    IF log = <<>> THEN [op |-> "none", y |-> <<>>, fh |-> 0] ELSE log[Len(log)]

Scoring(test, pred) ==
    (test[1] + pred.params * Len(LastFit(pred.state).y)) % 3

\* --------------------------------------------------------------- evaluate
\* the test positions leak into the train subset
SplitDataLeak(win) == [y_train |-> win[1] \o win[2], y_test |-> win[2]]

\* y.iloc[train], y.iloc[test]
SplitData(win) == [y_train |-> win[1], y_test |-> win[2]]

\* np.empty(n): n entries, none assigned yet
PreAllocate(n, unassigned) == [j \in 1..n |-> unassigned]

\* the next index instead of the iteration's own
ScoreIndexOffByOne(it) == it + 1

\* the indices counted from the end
ScoreIndexReversed(it) == n_splits + 1 - it

\* the index of scores assigned in iteration it (1-based)
ScoreIndex(it) == it

\* the exception is swallowed and the loop goes on
OnRaiseContinue(at) == "split_loop"

\* where control goes when a call in the loop body raises
OnRaise(at) == "raised"

\* np.mean(scores), kept exact as the sum and the count
RECURSIVE SumValues(_)
SumValues(s) == IF s = <<>> THEN 0 ELSE s[1].value + SumValues(Tail(s))

Mean(s) ==
    IF s = <<>> \/ \E j \in 1..Len(s) : ~s[j].set THEN UninitMean
    ELSE [set |-> TRUE, sum |-> SumValues(s), count |-> Len(s)]

\* -------------------------------------------------------------------- Init
Configs ==
    {c \in [kind : Kinds, window_length : 1..MaxLen, step_length : 1..MaxLen,
            horizon_length : 1..MaxLen, initial_window_length : 0..MaxLen] :
        /\ (c.kind = "sliding-with-initial-window")
              <=> (c.initial_window_length > 0)
        /\ (c.kind = "sliding-with-initial-window")
              => (c.window_length = c.initial_window_length)
        /\ (c.kind = "blocked") => (c.step_length = 1)}

\* the values of the one hyperparameter a configuration sets
ParamValues == {1, 2}

Grids == UNION {[1..m -> ParamValues] : m \in 1..MaxGrid}

Init ==
    /\ pc = "fit"
    /\ y_len \in 1..MaxSeries
    /\ cv \in Configs
    /\ Split(cv, y_len) # <<>>
    /\ strategy \in Strategies
    /\ param_grid \in Grids
    /\ heap = (0 :> [params |-> 0, log |-> <<>>])
    /\ best_params = Unset
    /\ cv_results = <<>>
    /\ i = 1
    /\ forecaster = 0
    /\ n_splits = 0
    /\ scores = <<>>
    /\ windows = <<>>
    /\ k = 1
    /\ y_train = <<>>
    /\ y_test = <<>>
    /\ y_pred = NoPred
    /\ writes = <<>>
    /\ raised = "none"

\* ----------------------------------------------------------------- actions
\* fit: cv_results = np.empty(len(self.param_grid))
FitEnter ==
    /\ pc = "fit"
    /\ cv_results' = PreAllocate(Len(param_grid), UninitMean)
    /\ i' = 1
    /\ pc' = "grid_loop"
    /\ UNCHANGED <<windows, y_len, cv, strategy, param_grid, heap, best_params,
                   forecaster, n_splits, scores, k, y_train, y_test, y_pred,
                   writes, raised>>

\* fit: forecaster = clone(self.forecaster); forecaster.set_params(**params)
CloneAndSetParams ==
    /\ pc = "grid_loop"
    /\ i <= Len(param_grid)
    /\ LET c == Clone(heap, 0, i)
       IN  /\ forecaster' = c.id
           /\ heap' = [c.heap EXCEPT ![c.id] = SetParams(@, param_grid[i])]
    /\ pc' = "evaluate"
    /\ UNCHANGED <<windows,
                   y_len, cv, strategy, param_grid, best_params, cv_results,
                   i, n_splits, scores, k, y_train, y_test, y_pred, writes,
                   raised>>

\* evaluate: n_splits = cv.get_n_splits(y); scores = np.empty(n_splits)
EvaluateEnter ==
    /\ pc = "evaluate"
    /\ n_splits' = GetNSplits(cv, y_len)
    /\ scores' = PreAllocate(GetNSplits(cv, y_len), UninitScore)
    /\ writes' = [j \in 1..GetNSplits(cv, y_len) |-> 0]
    /\ windows' = Split(cv, y_len)
    /\ k' = 1
    /\ pc' = "split_loop"
    /\ UNCHANGED <<y_len, cv, strategy, param_grid, heap, best_params,
                   cv_results, i, forecaster, y_train, y_test, y_pred, raised>>

\* evaluate: next (train, test) of cv.split(y); y_train, y_test
SplitWindow ==
    /\ pc = "split_loop"
    /\ k <= Len(windows)
    /\ y_train' = SplitData(windows[k]).y_train
    /\ y_test' = SplitData(windows[k]).y_test
    /\ pc' = "do_fit"
    /\ UNCHANGED <<windows, y_len, cv, strategy, param_grid, heap, best_params,
                   cv_results, i, forecaster, n_splits, scores, k, y_pred,
                   writes, raised>>

\* evaluate: forecaster.fit(y_train, fh)
ForecasterFit ==
    /\ pc = "do_fit"
    /\ heap' = [heap EXCEPT ![forecaster] = Fit(@, y_train, cv.horizon_length)]
    /\ pc' = "do_predict"
    /\ UNCHANGED <<windows,
                   y_len, cv, strategy, param_grid, best_params, cv_results,
                   i, forecaster, n_splits, scores, k, y_train, y_test, y_pred,
                   writes, raised>>

\* evaluate: forecaster.fit raises
ForecasterFitRaises ==
    /\ pc = "do_fit"
    /\ raised' = "fit"
    /\ pc' = OnRaise("fit")
    /\ UNCHANGED <<windows, y_len, cv, strategy, param_grid, heap, best_params,
                   cv_results, i, forecaster, n_splits, scores, k, y_train,
                   y_test, y_pred, writes>>

\* evaluate: y_pred = forecaster.predict()
ForecasterPredict ==
    /\ pc = "do_predict"
    /\ y_pred' = Predict(heap[forecaster])
    /\ pc' = "do_score"
    /\ UNCHANGED <<windows, y_len, cv, strategy, param_grid, heap, best_params,
                   cv_results, i, forecaster, n_splits, scores, k, y_train,
                   y_test, writes, raised>>

\* evaluate: forecaster.predict raises
ForecasterPredictRaises ==
    /\ pc = "do_predict"
    /\ raised' = "predict"
    /\ pc' = OnRaise("predict")
    /\ UNCHANGED <<windows, y_len, cv, strategy, param_grid, heap, best_params,
                   cv_results, i, forecaster, n_splits, scores, k, y_train,
                   y_test, y_pred, writes>>

\* evaluate: scores[i] = scoring(y_test, y_pred)
Score ==
    /\ pc = "do_score"
    /\ IF ScoreIndex(k) \in 1..Len(scores)
       THEN /\ scores' = [scores EXCEPT ![ScoreIndex(k)] =
                             [set |-> TRUE, y_test |-> y_test,
                              y_pred |-> y_pred, value |-> Scoring(y_test, y_pred)]]
            /\ writes' = [writes EXCEPT ![ScoreIndex(k)] = @ + 1]
            /\ k' = k + 1
            /\ pc' = "split_loop"
            /\ UNCHANGED raised
       ELSE /\ raised' = "index"
            /\ pc' = "raised"
            /\ UNCHANGED <<scores, writes, k>>
    /\ UNCHANGED <<windows, y_len, cv, strategy, param_grid, heap, best_params,
                   cv_results, i, forecaster, n_splits, y_train, y_test,
                   y_pred>>

\* evaluate: scoring raises
ScoringRaises ==
    /\ pc = "do_score"
    /\ raised' = "scoring"
    /\ pc' = OnRaise("scoring")
    /\ UNCHANGED <<windows, y_len, cv, strategy, param_grid, heap, best_params,
                   cv_results, i, forecaster, n_splits, scores, k, y_train,
                   y_test, y_pred, writes>>

\* evaluate: return scores; fit: cv_results[i] = np.mean(scores)
EvaluateReturn ==
    /\ pc = "split_loop"
    /\ k > Len(windows)
    /\ cv_results' = [cv_results EXCEPT ![i] = Mean(scores)]
    /\ i' = i + 1
    /\ pc' = "grid_loop"
    /\ UNCHANGED <<windows, y_len, cv, strategy, param_grid, heap, best_params,
                   forecaster, n_splits, scores, k, y_train, y_test, y_pred,
                   writes, raised>>

\* fit: return self
FitReturn ==
    /\ pc = "grid_loop"
    /\ i > Len(param_grid)
    /\ pc' = "done"
    /\ UNCHANGED <<windows, y_len, cv, strategy, param_grid, heap, best_params,
                   cv_results, i, forecaster, n_splits, scores, k, y_train,
                   y_test, y_pred, writes, raised>>

Next ==
    \/ FitEnter
    \/ CloneAndSetParams
    \/ EvaluateEnter
    \/ SplitWindow
    \/ ForecasterFit
    \/ ForecasterFitRaises
    \/ ForecasterPredict
    \/ ForecasterPredictRaises
    \/ Score
    \/ ScoringRaises
    \/ EvaluateReturn
    \/ FitReturn

Spec == Init /\ [][Next]_vars

\* ------------------------------------------------------------ properties
FitOf(train) == [op |-> "fit", y |-> train, fh |-> cv.horizon_length]
Clones == DOMAIN heap \ {0}

\* C1 (as stated): under `refit` the forecaster that predicts for window k is
\* a fresh instance fitted on window k's train subset and the horizon only,
\* so its state holds nothing of any earlier window's fit.
C1_FreshInstancePerWindow ==
    (strategy = "refit" /\ pc = "do_predict")
        => heap[forecaster].log = <<FitOf(y_train)>>

\* C1 (amended): evaluate obtains no fresh instance.  The forecaster that
\* predicts for window k is the one instance evaluate was given, and fit has
\* been called on it for the train subsets of windows 1..k in that order,
\* the most recent call being the fit on window k's train subset.
C1_SameInstanceRefitted ==
    pc = "do_predict"
        => /\ forecaster = i
           /\ Len(heap[forecaster].log) = k
           /\ \A j \in 1..k : heap[forecaster].log[j] = FitOf(windows[j][1])
           /\ LastFit(heap[forecaster].log) = FitOf(y_train)

C1_Witness ==
    /\ strategy = "refit"
    /\ pc = "do_predict"
    /\ k >= 2
    /\ Len(heap[forecaster].log) = k

\* C2: under `expanding` every window has max(train) < min(test), and
\* whenever evaluate predicts or scores, every position the forecaster has
\* been fitted on lies strictly before every position it is scored on.
C2_NoLeakageExpanding ==
    cv.kind = "expanding"
        => /\ LET plan == Split(cv, y_len)
              IN  \A w \in 1..Len(plan) :
                     Max(SetOf(plan[w][1])) < Min(SetOf(plan[w][2]))
           /\ pc \in {"do_predict", "do_score"}
                 => \A j \in 1..Len(heap[forecaster].log) :
                      \A p \in SetOf(heap[forecaster].log[j].y) :
                         p < Min(SetOf(y_test))

C2_Witness ==
    /\ cv.kind = "expanding"
    /\ pc = "do_score"
    /\ k >= 2
    /\ Len(heap[forecaster].log) >= 2

\* the (train-index set, configuration) key of the j-th fit of forecaster a
FitKey(a, j) == <<SetOf(heap[a].log[j].y), heap[a].params>>
FitCalls == {c \in Clones \X (1..Len(windows)) : c[2] <= Len(heap[c[1]].log)}

\* C3 (as stated): within one run the fit is executed at most once per
\* distinct (train-index set, configuration) key.
C3_AtMostOneFitPerKey ==
    \A c \in FitCalls : \A d \in FitCalls :
        FitKey(c[1], c[2]) = FitKey(d[1], d[2]) => c = d

\* C3 (amended): there is no cache.  When the run has finished, fit has been
\* executed exactly once for every pair of a param_grid index and a window,
\* so a key has been fitted as many times as its configuration occurs in
\* param_grid.
C3_OneFitPerGridEntryAndWindow ==
    pc = "done"
        => /\ Clones = 1..Len(param_grid)
           /\ \A a \in Clones :
                 /\ Len(heap[a].log) = Len(windows)
                 /\ \A j \in 1..Len(windows) :
                       Cardinality({c \in FitCalls :
                                      FitKey(c[1], c[2]) = FitKey(a, j)})
                         = Cardinality({b \in 1..Len(param_grid) :
                                          param_grid[b] = param_grid[a]})

C3_Witness ==
    /\ pc = "done"
    /\ Len(param_grid) = 2
    /\ param_grid[1] = param_grid[2]
    /\ Len(windows) >= 2
    /\ Len(heap[2].log) = Len(windows)

\* C4 (as stated): a failure of fit, predict or scoring on one window does
\* not abort evaluate.
C4_FailureDoesNotAbort ==
    raised \in {"fit", "predict", "scoring"} => pc # "raised"

\* C4 (amended): evaluate has no fail_fast option and catches nothing.  The
\* first failure of fit, predict or scoring aborts the run: no further step
\* is taken, the failed window and every later window have no score, and no
\* aggregate is recorded for the configuration under evaluation.
C4_FirstFailureAborts ==
    raised # "none"
        => /\ pc = "raised"
           /\ ~ENABLED Next
           /\ \A j \in k..Len(scores) : ~scores[j].set
           /\ \A a \in i..Len(cv_results) : ~cv_results[a].set

C4_Witness ==
    /\ raised = "fit"
    /\ pc = "raised"
    /\ k >= 2
    /\ k < n_splits
    /\ ~scores[k + 1].set

\* C5: under `update` fit is called for the first window only; for every
\* later window update is called with the positions added since the previous
\* window's train set.
C5_UpdateAfterFirstWindow ==
    strategy = "update"
        => \A a \in Clones : \A j \in 2..Len(heap[a].log) :
              /\ heap[a].log[j].op = "update"
              /\ SetOf(heap[a].log[j].y)
                   = SetOf(windows[j][1]) \ SetOf(windows[j - 1][1])

\* aggregate a is at least as good as aggregate b under the polarity
AsGood(a, b, polarity) ==
    IF polarity = "minimize" THEN a.sum * b.count <= b.sum * a.count
    ELSE a.sum * b.count >= b.sum * a.count

\* C6: the search returns a best configuration whose aggregate score is
\* optimal under the selection rule; among configurations with exactly equal
\* best aggregates the one enumerated first in param_grid is returned.
C6_BestIsFirstOptimal ==
    pc = "done"
        => /\ best_params # Unset
           /\ \E polarity \in {"minimize", "maximize"} :
                \E b \in 1..Len(param_grid) :
                   /\ best_params = param_grid[b]
                   /\ \A a \in 1..Len(param_grid) :
                         AsGood(cv_results[b], cv_results[a], polarity)
                   /\ \A a \in 1..(b - 1) :
                         ~AsGood(cv_results[a], cv_results[b], polarity)

\* C7: n_splits equals the number of windows the split sequence yields, the
\* score array has n_splits entries, every index below the current iteration
\* has been assigned exactly once, no other index has been assigned, and no
\* assignment falls outside the array; on return every index has been
\* assigned exactly once.
C7_NSplitsMatchesWrites ==
    /\ GetNSplits(cv, y_len) = Len(Split(cv, y_len))
    /\ raised # "index"
    /\ pc \in {"split_loop", "do_fit", "do_predict", "do_score"}
          => /\ Len(scores) = n_splits
             /\ n_splits = Len(windows)
             /\ windows = Split(cv, y_len)
             /\ DOMAIN writes = 1..n_splits
             /\ \A j \in 1..n_splits : writes[j] = IF j < k THEN 1 ELSE 0
             /\ \A j \in 1..n_splits : scores[j].set <=> (j < k)
    /\ (pc = "grid_loop" /\ i > 1)
          => /\ Len(scores) = n_splits
             /\ \A j \in 1..n_splits : writes[j] = 1 /\ scores[j].set

C7_Witness ==
    /\ pc = "grid_loop"
    /\ i > 1
    /\ n_splits >= 3
    /\ \A j \in 1..n_splits : writes[j] = 1
    /\ cv.kind = "sliding"

\* C8: the j-th entry of scores is the score of the j-th window: its test
\* subset against the prediction made after the fit on its train subset.
C8_ScoresInWindowOrder ==
    /\ \A j \in 1..Len(scores) :
          scores[j].set
             => /\ scores[j].y_test = windows[j][2]
                /\ LastFit(scores[j].y_pred.state) = FitOf(windows[j][1])
                /\ scores[j].value = Scoring(windows[j][2], scores[j].y_pred)
    /\ (pc = "grid_loop" /\ i > 1)
          => /\ Len(scores) = Len(windows)
             /\ \A j \in 1..Len(scores) : scores[j].set

C8_Witness ==
    /\ pc = "grid_loop"
    /\ i > 1
    /\ Len(scores) >= 3
    /\ scores[1].y_test # scores[2].y_test
    /\ scores[3].set

\* C9: for a sliding-with-initial-window plan, requesting `refit` fails with
\* IncompatibleStrategyError before any fit, predict or score is performed.
C9_RefitRejectedForInitialWindow ==
    (cv.kind = "sliding-with-initial-window" /\ strategy = "refit")
        => /\ \A a \in DOMAIN heap : heap[a].log = <<>>
           /\ pc \notin {"do_fit", "do_predict", "do_score"}
           /\ \A j \in 1..Len(scores) : ~scores[j].set

\* the scores of evaluating a fresh clone with parameters p, window by window
RefitLog(j) == [w \in 1..j |-> FitOf(windows[w][1])]
ExpectedScores(p) ==
    [j \in 1..Len(windows) |->
        [set |-> TRUE, y_test |-> windows[j][2],
         y_pred |-> [params |-> p, state |-> RefitLog(j)],
         value |-> Scoring(windows[j][2], [params |-> p, state |-> RefitLog(j)])]]

\* C10: param_grid is processed in enumeration order; cv_results[a] is the
\* mean of the scores of evaluating a clone of the template with
\* param_grid[a] applied; the template is never fitted and keeps its
\* parameters; every clone carries its own configuration and only its own
\* fits.
C10_ResultsPerConfiguration ==
    /\ heap[0] = [params |-> 0, log |-> <<>>]
    /\ \A a \in 1..Len(cv_results) :
          /\ cv_results[a].set <=> (a < i)
          /\ cv_results[a].set
                => cv_results[a] = Mean(ExpectedScores(param_grid[a]))
    /\ \A a \in Clones :
          /\ heap[a].params = param_grid[a]
          /\ a < i => heap[a].log = RefitLog(Len(windows))
    /\ pc \in {"evaluate", "split_loop", "do_fit", "do_predict", "do_score"}
          => forecaster = i /\ i \in Clones

C10_Witness ==
    /\ pc = "done"
    /\ Len(param_grid) = 2
    /\ param_grid[1] # param_grid[2]
    /\ cv_results[1].set
    /\ cv_results[2].set
    /\ cv_results[1] # cv_results[2]

====
